---- MODULE Spec2Model ----
(***************************************************************************)
(* Model of the YEBELO trading analytics pipeline:                         *)
(*   - the SSE relay  (trading-dashboard/app/api/stream/route.ts),         *)
(*     one Kafka consumer per HTTP session, all in the consumer group      *)
(*     'dashboard-consumer', reading the one-partition topic rsi-data;     *)
(*   - the RSI estimator of the rsi-calculator service;                    *)
(*   - the dashboard page (trading-dashboard/app/page.tsx) and its         *)
(*     EventSource clients;                                                *)
(*   - the token list route (trading-dashboard/app/api/tokens/route.ts).   *)
(***************************************************************************)
EXTENDS Integers, Sequences, FiniteSets, TLC

(***************************************************************************)
(* Bounds of the model.                                                    *)
(***************************************************************************)
MaxSessions == 2
MaxLog == 2
MaxTrades == 5
MaxPrice == 3
ScriptLen == 16
MaxSources == 3
MaxArrivals == 2
WireLen == 80
MaxTradeLog == 3
MaxRequests == 2
TradeScriptLen == 152

Sessions == 1..MaxSessions

(***************************************************************************)
(* JSON values and the messages of the topic rsi-data.                     *)
(* A message value is the raw text of the message, or NoValue when         *)
(* message.value is null.  A parsed value is a tagged record.              *)
(***************************************************************************)
NoValue == "<no value>"

RawA == "{\"token_address\":\"A\",\"rsi_value\":100.0,\"current_price\":15.0,\"timestamp\":\"t1\",\"period\":14,\"signal\":\"overbought\"}"
RawB == "{\"token_address\":\"B\",\"rsi_value\":50.0,\"current_price\":2.0,\"timestamp\":\"t2\",\"period\":14,\"signal\":\"neutral\"}"
RawPartial == "{\"token_address\":\"A\"}"
RawTruncated == "{\"token_address\":\"A\",\"rsi_va"

MessageValues == {RawA, RawB, RawPartial, RawTruncated, NoValue}

\* messages of the topic trade-data
RawTradeA == "{\"token_address\":\"A\",\"price_in_sol\":1.5}"
RawTradeB == "{\"token_address\":\"B\",\"price_in_sol\":2.5}"
RawTradeNoToken == "{\"price_in_sol\":1.5}"

TradeValues ==
    {RawTradeA, RawTradeB, RawTradeNoToken, "null", RawTruncated, NoValue}

\* (a JSON number is kept as its shortest decimal text)
EventA == [token_address |-> "A", rsi_value |-> "100", current_price |-> "15",
           timestamp |-> "t1", period |-> "14", signal |-> "overbought"]
EventB == [token_address |-> "B", rsi_value |-> "50", current_price |-> "2",
           timestamp |-> "t2", period |-> "14", signal |-> "neutral"]
PartialA == [token_address |-> "A"]
TradeA == [token_address |-> "A", price_in_sol |-> "1.5"]
TradeB == [token_address |-> "B", price_in_sol |-> "2.5"]
TradeNoToken == [price_in_sol |-> "1.5"]
JsonNull == [t |-> "null"]

SyntaxError == [t |-> "SyntaxError"]
Undefined == "<undefined>"

\* JSON.parse on the texts the model uses: an object, or a SyntaxError thrown.
JSONParse(text) ==
    CASE text = RawA -> [t |-> "object", fields |-> EventA]
      [] text = "{\"token_address\":\"A\",\"rsi_value\":100,\"current_price\":15,\"timestamp\":\"t1\",\"period\":14,\"signal\":\"overbought\"}"
              -> [t |-> "object", fields |-> EventA]
      [] text = RawB -> [t |-> "object", fields |-> EventB]
      [] text = "{\"token_address\":\"B\",\"rsi_value\":50,\"current_price\":2,\"timestamp\":\"t2\",\"period\":14,\"signal\":\"neutral\"}"
              -> [t |-> "object", fields |-> EventB]
      [] text = RawPartial -> [t |-> "object", fields |-> PartialA]
      [] text = RawTradeA -> [t |-> "object", fields |-> TradeA]
      [] text = RawTradeB -> [t |-> "object", fields |-> TradeB]
      [] text = RawTradeNoToken -> [t |-> "object", fields |-> TradeNoToken]
      [] text = "null" -> JsonNull
      [] OTHER -> SyntaxError

\* a serialization that writes the token_address and loses the other fields
JSONStringifyTokenOnly(v) == RawPartial

\* JSON.stringify: the compact text of a value (a whole-valued number is
\* written without a fraction, so 100.0 is written 100).
JSONStringify(v) ==
    CASE v = JsonNull -> "null"
      [] v.fields = EventA
              -> "{\"token_address\":\"A\",\"rsi_value\":100,\"current_price\":15,\"timestamp\":\"t1\",\"period\":14,\"signal\":\"overbought\"}"
      [] v.fields = EventB
              -> "{\"token_address\":\"B\",\"rsi_value\":50,\"current_price\":2,\"timestamp\":\"t2\",\"period\":14,\"signal\":\"neutral\"}"
      [] v.fields = PartialA -> RawPartial

\* rsiData.<name>: undefined when the object has no such property.
Field(v, name) ==
    IF name \in DOMAIN v.fields THEN v.fields[name] ELSE Undefined

(***************************************************************************)
(* State.                                                                  *)
(***************************************************************************)
VARIABLES
    log,            \* topic rsi-data: the sequence of message values
    pc,             \* per session: where its start() callback / teardown is
    selectedToken,  \* per session: the filter of the request
    query,          \* per session: the token parameter of the request URL
    aborted,        \* per session: request.signal has fired 'abort'
    strm,           \* per session: state of the ReadableStream
    queue,          \* per session: chunks enqueued and not yet read
    handled,        \* per session: offsets eachMessage was called with
    connectedAt,    \* per session: length of the log when the request came
    liveAt,         \* per session: length of the log when consumer.run resolved
    members,        \* consumer group 'dashboard-consumer': joined consumers
    owner,          \* the member the partition of rsi-data is assigned to
    committed,      \* the group's committed offset (NoOffset: none yet)
    position        \* the owner's next fetch offset

relayVars == <<log, pc, selectedToken, query, aborted, strm, queue, handled,
               connectedAt, liveAt, members, owner, committed, position>>

\* the RSI calculator
VARIABLES
    period,         \* rsi_period, the W of the indicator
    table,          \* Instrument State Table: token -> window and smoothed state
    inbound,        \* the trades of trade-data consumed so far
    outbound,       \* the Result Events published so far
    script          \* the trades a replayed run is going to feed (else empty)

rsiVars == <<period, table, inbound, outbound, script>>

\* the dashboard page (one mounted TradingDashboard component)
VARIABLES
    pageToken,       \* useState selectedToken
    availableTokens, \* useState availableTokens
    chartData,       \* useState chartData
    currentData,     \* useState currentData
    isConnected,     \* useState isConnected
    error,           \* useState error
    sources,         \* the EventSource objects created so far: token, state
    timers,          \* pending setTimeout(connectToStream, 3000): the token
                     \* of the closure each one is going to call
    mounted,         \* the component is mounted
    fetchPc,         \* fetchTokens: "pending" until its fetch has settled
    arrived,         \* every message event handed to an onmessage, in order
    wire             \* the data a replayed stream is going to deliver

dashVars == <<pageToken, availableTokens, chartData, currentData, isConnected,
              error, sources, timers, mounted, fetchPc, arrived, wire>>

\* the token list route
VARIABLES
    tradeLog,       \* topic trade-data: the sequence of message values
    tokPc,          \* where the GET handler is
    tokConsumer,    \* state of the consumer the handler created
    tokens,         \* the Set tokens, in insertion order
    messageCount,   \* let messageCount
    tokCommitted,   \* committed offset of the group 'token-fetcher'
    tokPosition,    \* the consumer's next fetch offset
    scanFrom,       \* the offset the consumer of the request started at
    answers         \* the responses of the requests so far, each with the
                    \* length of trade-data when it was built

tokVars == <<tradeLog, tokPc, tokConsumer, tokens, messageCount,
             tokCommitted, tokPosition, scanFrom, answers>>

\* the network between the page and the stream route
VARIABLES
    relayUp         \* the stream route accepts connections and keeps them

vars == <<relayVars, rsiVars, dashVars, tokVars, relayUp>>

\* a step of one component leaves the other components alone
RelayStep == UNCHANGED <<rsiVars, dashVars, tokVars, relayUp>>
RsiStep == UNCHANGED <<relayVars, dashVars, tokVars, relayUp>>
DashStep == UNCHANGED <<relayVars, rsiVars, tokVars, relayUp>>
TokStep == UNCHANGED <<relayVars, rsiVars, dashVars, relayUp>>

Null == "<null>"

NoOffset == -1
NoOwner == 0
QueryParams == {"<missing>", "", "all", "A"}

\* a default that is taken for a missing parameter only
TokenFilterMissingOnly(param) ==
    IF param = "<missing>" THEN "all" ELSE param

\* searchParams.get('token') || 'all'
TokenFilter(param) ==
    IF param = "<missing>" \/ param = "" THEN "all" ELSE param

RelayInit ==
    /\ log = << >>
    /\ pc = [s \in Sessions |-> "idle"]
    /\ selectedToken = [s \in Sessions |-> "all"]
    /\ query = [s \in Sessions |-> "<missing>"]
    /\ aborted = [s \in Sessions |-> FALSE]
    /\ strm = [s \in Sessions |-> "readable"]
    /\ queue = [s \in Sessions |-> << >>]
    /\ handled = [s \in Sessions |-> << >>]
    /\ connectedAt = [s \in Sessions |-> 0]
    /\ liveAt = [s \in Sessions |-> 0]
    /\ members = {}
    /\ owner = NoOwner
    /\ committed = NoOffset
    /\ position = 0

\* the page after mount: both effects have run, so fetchTokens is under
\* way and connectToStream has made the EventSource for 'all'
DashIdle ==
    /\ pageToken = "all"
    /\ availableTokens = << >>
    /\ chartData = << >>
    /\ currentData = JsonNull
    /\ isConnected = FALSE
    /\ error = Null
    /\ sources = << [token |-> "all", state |-> "connecting"] >>
    /\ timers = << >>
    /\ mounted = TRUE
    /\ fetchPc = "pending"
    /\ arrived = << >>
    /\ wire = << >>
    /\ relayUp = FALSE

\* the handler of the token list route before any request
TokAtRest ==
    /\ tokPc = "idle"
    /\ tokConsumer = "none"
    /\ tokens = << >>
    /\ messageCount = 0
    /\ tokCommitted = NoOffset
    /\ tokPosition = 0
    /\ scanFrom = 0
    /\ answers = << >>

\* the token list route before any request, trade-data empty
TokIdle == tradeLog = << >> /\ TokAtRest

(***************************************************************************)
(* The publisher of rsi-data (outside the relay) appends a message.        *)
(***************************************************************************)
Publish(v) ==
    /\ RelayStep
    /\ Len(log) < MaxLog
    /\ log' = Append(log, v)
    /\ UNCHANGED <<query, pc, selectedToken, aborted, strm, queue, handled,
                   connectedAt, liveAt, members, owner, committed, position>>

(***************************************************************************)
(* The consumer group.  After a membership change the partition is         *)
(* assigned to any one member; a member that newly gets it starts at the   *)
(* group's committed offset, or at the end of the log when there is none   *)
(* (fromBeginning: false).                                                 *)
(***************************************************************************)
\* a new owner that reads the last committed message once more
StartOffsetRereads ==
    IF committed = NoOffset THEN Len(log) ELSE committed - 1

StartOffset == IF committed = NoOffset THEN Len(log) ELSE committed

Rebalance(newMembers) ==
    /\ members' = newMembers
    /\ IF newMembers = {}
       THEN owner' = NoOwner /\ position' = position
       ELSE \E o \in newMembers :
              /\ owner' = o
              /\ position' = IF o = owner THEN position ELSE StartOffset

(***************************************************************************)
(* GET: a request arrives; the stream is created and start() begins.       *)
(***************************************************************************)
StartSession(s, param) ==
    /\ RelayStep
    /\ pc[s] = "idle"
    /\ \A t \in Sessions : t < s => pc[t] # "idle"
    /\ selectedToken' = [selectedToken EXCEPT ![s] = TokenFilter(param)]
    /\ connectedAt' = [connectedAt EXCEPT ![s] = Len(log)]
    /\ pc' = [pc EXCEPT ![s] = "starting"]
    /\ UNCHANGED <<log, aborted, strm, queue, handled, liveAt,
                   members, owner, committed, position>>

Request(s, param) == StartSession(s, param) /\ UNCHANGED query

\* the same, with the token parameter of the URL written down
RequestLogged(s, param) ==
    StartSession(s, param) /\ query' = [query EXCEPT ![s] = param]

\* consumer.connect(), consumer.subscribe(...) and consumer.run(...) have
\* resolved: the consumer has joined the group; the try block is left and the
\* abort listener is registered.
RunOk(s) ==
    /\ RelayStep
    /\ pc[s] = "starting"
    /\ pc' = [pc EXCEPT ![s] = "running"]
    /\ liveAt' = [liveAt EXCEPT ![s] = Len(log)]
    /\ Rebalance(members \cup {s})
    /\ UNCHANGED <<query, log, selectedToken, aborted, strm, queue, handled,
                   connectedAt, committed>>

\* controller.error(e): only a readable stream changes state; its queue is reset
ControllerError(state) == IF state = "readable" THEN "errored" ELSE state

\* connect, subscribe or run rejects: the catch block errors the stream, then
\* the abort listener is registered.
StartFail(s) ==
    /\ RelayStep
    /\ pc[s] = "starting"
    /\ pc' = [pc EXCEPT ![s] = "errored"]
    /\ strm' = [strm EXCEPT ![s] = ControllerError(strm[s])]
    /\ queue' = [queue EXCEPT ![s] = << >>]
    /\ UNCHANGED <<query, log, selectedToken, aborted, handled,
                   connectedAt, liveAt, members, owner, committed, position>>

(***************************************************************************)
(* eachMessage: the handler consumer.run calls for the next message of the *)
(* partition, on the consumer that owns the partition.                     *)
(***************************************************************************)
\* a relay that forgets the filter
FilteredOutNever(tok, rsiData) == FALSE

\* the filter: the message is for another token than the selected one
FilteredOut(tok, rsiData) ==
    tok # "all" /\ Field(rsiData, "token_address") # tok

\* `data: ${JSON.stringify(rsiData)}\n\n`
SseData(rsiData) == "data: " \o JSONStringify(rsiData) \o "\n\n"

\* the message gets as far as controller.enqueue
Accepts(tok, value) ==
    /\ value # NoValue
    /\ JSONParse(value) # SyntaxError
    /\ ~FilteredOut(tok, JSONParse(value))

\* new ReadableStream({...}) without a queuing strategy: highWaterMark is 1
HighWaterMark == 1

\* a queue that keeps highWaterMark chunks and drops the oldest one
EnqueueDropOldest(q, chunk) ==
    IF Len(q) >= HighWaterMark THEN Append(Tail(q), chunk) ELSE Append(q, chunk)

\* controller.enqueue(chunk) on a readable stream: the chunk joins the queue,
\* whatever the queue's length (highWaterMark only feeds desiredSize)
Enqueue(q, chunk) == Append(q, chunk)

EachMessage(s) ==
    /\ RelayStep
    /\ pc[s] = "running"
    /\ owner = s
    /\ position < Len(log)
    /\ LET off == position + 1
           value == log[off]
       IN  /\ handled' = [handled EXCEPT ![s] = Append(@, off)]
           /\ queue' = IF Accepts(selectedToken[s], value) /\ strm[s] = "readable"
                       THEN [queue EXCEPT ![s] =
                               Enqueue(@, [frame |-> SseData(JSONParse(value)),
                                           off |-> off])]
                       ELSE queue   \* return, or the error is caught and logged
           /\ position' = off
           /\ committed' = off
    /\ UNCHANGED <<query, log, pc, selectedToken, aborted, strm,
                   connectedAt, liveAt, members, owner>>

(***************************************************************************)
(* The client goes away: request.signal fires 'abort' (once).  The runtime *)
(* may also cancel the response stream.  The listener, when it is          *)
(* registered, starts consumer.disconnect().                               *)
(***************************************************************************)
ListenerRegistered(s) == pc[s] \in {"running", "errored"}

Abort(s, cancelled) ==
    /\ RelayStep
    /\ pc[s] \notin {"idle", "disconnecting", "closed", "rejected"}
    /\ ~aborted[s]
    /\ aborted' = [aborted EXCEPT ![s] = TRUE]
    /\ pc' = [pc EXCEPT ![s] = IF ListenerRegistered(s) THEN "disconnecting" ELSE @]
    /\ IF cancelled /\ strm[s] = "readable"
       THEN /\ strm' = [strm EXCEPT ![s] = "closed"]
            /\ queue' = [queue EXCEPT ![s] = << >>]
       ELSE UNCHANGED <<strm, queue>>
    /\ UNCHANGED <<query, log, selectedToken, handled, connectedAt, liveAt,
                   members, owner, committed, position>>

\* controller.close(): only a readable stream closes (otherwise it throws)
ControllerClose(state) == IF state = "readable" THEN "closed" ELSE state

\* controller.close() throws a TypeError on a stream that is not readable
CloseThrows(state) == state # "readable"

\* await consumer.disconnect() resolves; then controller.close()
DisconnectDone(s) ==
    /\ RelayStep
    /\ pc[s] = "disconnecting"
    /\ pc' = [pc EXCEPT ![s] = IF CloseThrows(strm[s]) THEN "rejected" ELSE "closed"]
    /\ IF s \in members
       THEN Rebalance(members \ {s})
       ELSE UNCHANGED <<members, owner, position>>
    /\ strm' = [strm EXCEPT ![s] = ControllerClose(strm[s])]
    /\ UNCHANGED <<query, log, selectedToken, aborted, queue, handled,
                   connectedAt, liveAt, committed>>

\* the client reads the next chunk of the response
Read(s) ==
    /\ RelayStep
    /\ queue[s] # << >>
    /\ ~aborted[s]
    /\ queue' = [queue EXCEPT ![s] = Tail(@)]
    /\ UNCHANGED <<query, log, pc, selectedToken, aborted, strm, handled,
                   connectedAt, liveAt, members, owner, committed, position>>

RelayNext ==
    \/ \E v \in MessageValues : Publish(v)
    \/ \E s \in Sessions, param \in QueryParams : Request(s, param)
    \/ \E s \in Sessions : RunOk(s)
    \/ \E s \in Sessions : StartFail(s)
    \/ \E s \in Sessions : EachMessage(s)
    \/ \E s \in Sessions, cancelled \in BOOLEAN : Abort(s, cancelled)
    \/ \E s \in Sessions : DisconnectDone(s)
    \/ \E s \in Sessions : Read(s)

\* the relay, with the token parameter of every request written down
LoggedNext ==
    \/ \E v \in MessageValues : Publish(v)
    \/ \E s \in Sessions, param \in QueryParams : RequestLogged(s, param)
    \/ \E s \in Sessions : RunOk(s)
    \/ \E s \in Sessions : StartFail(s)
    \/ \E s \in Sessions : EachMessage(s)
    \/ \E s \in Sessions, cancelled \in BOOLEAN : Abort(s, cancelled)
    \/ \E s \in Sessions : DisconnectDone(s)
    \/ \E s \in Sessions : Read(s)

(***************************************************************************)
(* The RSI calculator.  Averages are exact fractions <<numerator,           *)
(* denominator>> in lowest terms with a positive denominator.               *)
(***************************************************************************)
RECURSIVE GCD(_, _)
GCD(a, b) == IF b = 0 THEN a ELSE GCD(b, a % b)

Abs(n) == IF n < 0 THEN -n ELSE n

Rat(n, d) ==
    LET m == IF d < 0 THEN -n ELSE n
        e == Abs(d)
        g == GCD(Abs(m), e)
    IN  <<m \div g, e \div g>>

FromInt(n) == <<n, 1>>
RAdd(x, y) == Rat(x[1] * y[2] + y[1] * x[2], x[2] * y[2])
RSub(x, y) == Rat(x[1] * y[2] - y[1] * x[2], x[2] * y[2])
RMul(x, y) == Rat(x[1] * y[1], x[2] * y[2])
RDiv(x, y) == Rat(x[1] * y[2], x[2] * y[1])
RLess(x, y) == x[1] * y[2] < y[1] * x[2]
RLeq(x, y) == x[1] * y[2] <= y[1] * x[2]

DefaultPeriod == 14
Periods == {2, 3}
OversoldBelow == 30
OverboughtAbove == 70

Instruments == {"A", "B"}
Prices == 1..MaxPrice

NewState ==
    [window |-> << >>, seen_count |-> 0, warm |-> FALSE,
     avg_gain |-> FromInt(0), avg_loss |-> FromInt(0)]

\* a window that, once full, keeps the prices it has and drops the new one
WindowPushKeepOldest(window, price) ==
    IF Len(window) > period THEN window ELSE Append(window, price)

\* Rolling Window: keep the most recent W+1 prices, evicting the oldest
WindowPush(window, price) ==
    LET w == Append(window, price)
    IN  IF Len(w) > period + 1 THEN Tail(w) ELSE w

\* a gain that counts a fall as well
GainOfAnyMove(delta) == Abs(delta)

Gain(delta) == IF delta > 0 THEN delta ELSE 0

\* a loss that counts a rise as well
LossOfAnyMove(delta) == Abs(delta)

Loss(delta) == IF delta < 0 THEN -delta ELSE 0

\* warm after W deltas, that is after W+1 prices, counted one price short
IsWarmOnePriceEarly(seen) == seen + 1 >= period

\* warm once W deltas have been seen, that is W+1 prices
IsWarm(seen) == seen >= period

\* Wilder estimator: one delta
Update(st, gain, loss) ==
    LET W == FromInt(period)
        seen == st.seen_count + 1
    IN  IF st.seen_count < period
        THEN \* warm-up: the simple average of the first W gains and losses
             [st EXCEPT !.seen_count = seen,
                        !.avg_gain = RAdd(@, RDiv(FromInt(gain), W)),
                        !.avg_loss = RAdd(@, RDiv(FromInt(loss), W)),
                        !.warm = IsWarm(seen)]
        ELSE \* steady: avg = (avg * (W - 1) + x) / W
             [st EXCEPT !.seen_count = seen,
                        !.avg_gain = RDiv(RAdd(RMul(@, FromInt(period - 1)), FromInt(gain)), W),
                        !.avg_loss = RDiv(RAdd(RMul(@, FromInt(period - 1)), FromInt(loss)), W),
                        !.warm = IsWarm(seen)]

\* the formula with the sign of the quotient slipped
RsiFormulaSignSlip(avg_gain, avg_loss) ==
    RAdd(FromInt(100), RDiv(FromInt(100), RAdd(FromInt(1), RDiv(avg_gain, avg_loss))))

\* RS = avg_gain / avg_loss;  RSI = 100 - 100 / (1 + RS)
RsiFormula(avg_gain, avg_loss) ==
    RSub(FromInt(100), RDiv(FromInt(100), RAdd(FromInt(1), RDiv(avg_gain, avg_loss))))

\* the estimator without the case of a flat market
RsiValueNoFlatCase(avg_gain, avg_loss) ==
    IF avg_loss = FromInt(0) THEN FromInt(100) ELSE RsiFormula(avg_gain, avg_loss)

RsiValue(avg_gain, avg_loss) ==
    IF avg_loss = FromInt(0) /\ avg_gain = FromInt(0) THEN FromInt(50)
    ELSE IF avg_loss = FromInt(0) THEN FromInt(100)
    ELSE RsiFormula(avg_gain, avg_loss)

\* a classification that takes the thresholds themselves as signals
SignalAtThreshold(rsi) ==
    IF RLeq(rsi, FromInt(OversoldBelow)) THEN "oversold"
    ELSE IF RLeq(FromInt(OverboughtAbove), rsi) THEN "overbought"
    ELSE "neutral"

Signal(rsi) ==
    IF RLess(rsi, FromInt(OversoldBelow)) THEN "oversold"
    ELSE IF RLess(FromInt(OverboughtAbove), rsi) THEN "overbought"
    ELSE "neutral"

ResultEvent(token, st, price, time) ==
    LET rsi == RsiValue(st.avg_gain, st.avg_loss)
    IN  [token_address |-> token, rsi_value |-> rsi, current_price |-> price,
         timestamp |-> time, period |-> period, signal |-> Signal(rsi)]

\* a table with one state that every instrument shares
StateOfLastTraded(token) ==
    IF inbound = << >> THEN NewState
    ELSE table[inbound[Len(inbound)].token_address]

\* get_or_create
StateOf(token) == IF token \in DOMAIN table THEN table[token] ELSE NewState

\* the state of an instrument after one more price
AfterTrade(st, price) ==
    IF st.window = << >>
    THEN [st EXCEPT !.window = WindowPush(@, price)]
    ELSE LET delta == price - st.window[Len(st.window)]
         IN  Update([st EXCEPT !.window = WindowPush(@, price)],
                    Gain(delta), Loss(delta))

\* Ingestion Loop, Consuming: one trade is routed, the estimator updated and,
\* if the instrument is warm, a Result Event is handed to the Publisher
ProcessTrade(trade) ==
    LET token == trade.token_address
        st == AfterTrade(StateOf(token), trade.price)
    IN  /\ table' = [j \in DOMAIN table \cup {token} |->
                        IF j = token THEN st ELSE table[j]]
        /\ inbound' = Append(inbound, trade)
        /\ outbound' = IF st.warm
                       THEN Append(outbound,
                                   ResultEvent(token, st, trade.price, Len(inbound) + 1))
                       ELSE outbound

\* the calculator at rest (while the relay is looked at)
RsiIdle ==
    /\ period = DefaultPeriod
    /\ table = [j \in {} |-> NewState]
    /\ inbound = << >>
    /\ outbound = << >>
    /\ script = << >>

\* any trade arrives
Ingest(token, price) ==
    /\ RsiStep
    /\ Len(inbound) < MaxTrades
    /\ ProcessTrade([token_address |-> token, price |-> price])
    /\ UNCHANGED <<period, script>>

RsiInit ==
    /\ RelayInit
    /\ DashIdle
    /\ TokIdle
    /\ period \in Periods
    /\ table = [j \in {} |-> NewState]
    /\ inbound = << >>
    /\ outbound = << >>
    /\ script = << >>

RsiNext ==
    \E token \in Instruments, price \in Prices : Ingest(token, price)

\* the calculator with any period and any trades
RsiSpec == RsiInit /\ [][RsiNext]_vars

\* a replayed feed for one instrument: a first price, then the deltas +up and
\* -down in turn (up = 1, down = -1 from 1 gives 1, 2, 3, ...)
Feed(first, up, down) ==
    [k \in 1..ScriptLen |->
        [token_address |-> "A",
         price |-> first + up * (k \div 2) - down * ((k - 1) \div 2)]]

Feeds ==
    {f \in {Feed(first, up, down) :
                first \in {1, 20, 40},
                up \in {-1, 0, 1, 2, 3, 7}, down \in {-1, 0, 1, 3, 7}} :
        \A k \in 1..ScriptLen : f[k].price > 0}

\* the next trade of the script arrives
Replay ==
    /\ RsiStep
    /\ Len(inbound) < Len(script)
    /\ ProcessTrade(script[Len(inbound) + 1])
    /\ UNCHANGED <<period, script>>

ReplayInit ==
    /\ RelayInit
    /\ DashIdle
    /\ TokIdle
    /\ period = DefaultPeriod
    /\ table = [j \in {} |-> NewState]
    /\ inbound = << >>
    /\ outbound = << >>
    /\ script \in Feeds

ReplayNext == Replay

\* the calculator with the period 14 on replayed feeds
ReplaySpec == ReplayInit /\ [][ReplayNext]_vars

(***************************************************************************)
(* The dashboard page.                                                     *)
(***************************************************************************)
\* event.data of the message events a stream can deliver
StreamData ==
    {JSONStringify(JSONParse(RawA)), JSONStringify(JSONParse(RawB)),
     RawPartial, "null", RawTruncated}

\* what the relay can send on a stream opened with ?token=tok
CanCarry(tok, data) ==
    IF JSONParse(data) = SyntaxError \/ tok = "all" THEN TRUE
    ELSE IF JSONParse(data) = JsonNull THEN FALSE
    ELSE Field(JSONParse(data), "token_address") = tok

\* new Date(timestamp).toLocaleTimeString(): the time of day, or the text
\* "Invalid Date" for a timestamp that is not a date
LocaleTimeString(timestamp) ==
    CASE timestamp = "t1" -> "10:00:01 AM"
      [] timestamp = "t2" -> "10:00:02 AM"
      [] OTHER -> "Invalid Date"

NewDataPoint(rsiData) ==
    [time |-> LocaleTimeString(Field(rsiData, "timestamp")),
     price |-> Field(rsiData, "current_price"),
     rsi |-> Field(rsiData, "rsi_value")]

ChartWindow == 50

\* a slice that keeps the first points instead of the last ones
SliceFromStart(seq, start) ==
    IF Len(seq) <= -start THEN seq ELSE SubSeq(seq, 1, -start)

\* Array.prototype.slice(start) with a negative start: from the index
\* max(length + start, 0) to the end
Slice(seq, start) ==
    LET from == IF Len(seq) + start > 0 THEN Len(seq) + start ELSE 0
    IN  [k \in 1..(Len(seq) - from) |-> seq[from + k]]

\* the try block of onmessage throws: JSON.parse (SyntaxError) or, for
\* the value null, rsiData.timestamp (TypeError)
ParseThrows(data) == JSONParse(data) = SyntaxError
HandlerThrows(data) == ParseThrows(data) \/ JSONParse(data) = JsonNull

\* an onmessage whose catch block empties the chart
OnMessageResets(i, data) ==
    /\ arrived' = Append(arrived, [data |-> data, src |-> i, mounted |-> mounted])
    /\ currentData' = IF mounted /\ ~ParseThrows(data)
                      THEN JSONParse(data)
                      ELSE currentData
    /\ chartData' = IF mounted /\ ~HandlerThrows(data)
                    THEN Slice(Append(chartData, NewDataPoint(JSONParse(data))),
                               -ChartWindow)
                    ELSE << >>

\* eventSource.onmessage; the setters of an unmounted component do nothing
OnMessage(i, data) ==
    /\ arrived' = Append(arrived, [data |-> data, src |-> i, mounted |-> mounted])
    /\ currentData' = IF mounted /\ ~ParseThrows(data)
                      THEN JSONParse(data)
                      ELSE currentData
    /\ chartData' = IF mounted /\ ~HandlerThrows(data)
                    THEN Slice(Append(chartData, NewDataPoint(JSONParse(data))),
                               -ChartWindow)
                    ELSE chartData

\* connectToStream() called from a closure whose selectedToken is tok
ConnectToStream(tok) ==
    sources' = Append(sources, [token |-> tok, state |-> "connecting"])

\* setSelectedToken(tok): when the value changes, the effect on
\* [selectedToken] runs its cleanup (setIsConnected(false), which closes
\* nothing) and calls connectToStream again
SetSelectedToken(tok) ==
    IF tok = pageToken
    THEN UNCHANGED <<pageToken, isConnected, sources>>
    ELSE /\ pageToken' = tok
         /\ isConnected' = FALSE
         /\ ConnectToStream(tok)

\* fetchTokens: the response is there; its closure is that of the first
\* render, where selectedToken is 'all'
FetchTokensOk(list) ==
    /\ DashStep
    /\ wire = << >>
    /\ fetchPc = "pending"
    /\ mounted
    /\ (list # << >> /\ list[1] # pageToken) => Len(sources) < MaxSources
    /\ fetchPc' = "done"
    /\ IF list # << >>
       THEN /\ availableTokens' = list
            /\ SetSelectedToken(list[1])
       ELSE UNCHANGED <<availableTokens, pageToken, isConnected, sources>>
    /\ UNCHANGED <<chartData, currentData, error, timers, mounted, arrived, wire>>

\* fetchTokens: fetch or response.json() rejects
FetchTokensFail ==
    /\ DashStep
    /\ wire = << >>
    /\ fetchPc = "pending"
    /\ fetchPc' = "done"
    /\ error' = IF mounted THEN "Could not load token list" ELSE error
    /\ UNCHANGED <<pageToken, availableTokens, chartData, currentData,
                   isConnected, sources, timers, mounted, arrived, wire>>

\* the user picks another option of the select
Select(tok) ==
    /\ DashStep
    /\ wire = << >>
    /\ mounted
    /\ tok \in {availableTokens[k] : k \in DOMAIN availableTokens}
    /\ tok # pageToken
    /\ Len(sources) < MaxSources
    /\ SetSelectedToken(tok)
    /\ UNCHANGED <<availableTokens, chartData, currentData, error, timers,
                   mounted, fetchPc, arrived, wire>>

\* eventSource.onopen
SourceOpen(i) ==
    /\ DashStep
    /\ sources[i].state = "connecting"
    /\ sources' = [sources EXCEPT ![i].state = "open"]
    /\ isConnected' = IF mounted THEN TRUE ELSE isConnected
    /\ error' = IF mounted THEN Null ELSE error
    /\ UNCHANGED <<pageToken, availableTokens, chartData, currentData,
                   timers, mounted, fetchPc, arrived, wire>>

\* a message event on an open stream
SourceMessage(i, data) ==
    /\ DashStep
    /\ wire = << >>
    /\ sources[i].state = "open"
    /\ CanCarry(sources[i].token, data)
    /\ Len(arrived) < MaxArrivals
    /\ OnMessage(i, data)
    /\ UNCHANGED <<pageToken, availableTokens, isConnected, error, sources,
                   timers, mounted, fetchPc, wire>>

\* an onerror that closes the stream and schedules nothing
SourceErrorGivesUp(i) ==
    /\ DashStep
    /\ wire = << >>
    /\ sources[i].state \in {"connecting", "open"}
    /\ sources' = [sources EXCEPT ![i].state = "closed"]
    /\ isConnected' = IF mounted THEN FALSE ELSE isConnected
    /\ error' = IF mounted THEN "Connection lost. Retrying..." ELSE error
    /\ UNCHANGED <<pageToken, availableTokens, chartData, currentData,
                   timers, mounted, fetchPc, arrived, wire>>

\* eventSource.onerror: close the stream and schedule connectToStream, the
\* one of the closure that made this stream
SourceError(i) ==
    /\ DashStep
    /\ wire = << >>
    /\ sources[i].state \in {"connecting", "open"}
    /\ sources' = [sources EXCEPT ![i].state = "closed"]
    /\ isConnected' = IF mounted THEN FALSE ELSE isConnected
    /\ error' = IF mounted THEN "Connection lost. Retrying..." ELSE error
    /\ timers' = Append(timers, sources[i].token)
    /\ UNCHANGED <<pageToken, availableTokens, chartData, currentData,
                   mounted, fetchPc, arrived, wire>>

\* the oldest timer fires
RetryFires ==
    /\ DashStep
    /\ timers # << >>
    /\ Len(sources) < MaxSources
    /\ ConnectToStream(Head(timers))
    /\ timers' = Tail(timers)
    /\ UNCHANGED <<pageToken, availableTokens, chartData, currentData,
                   isConnected, error, mounted, fetchPc, arrived, wire>>

\* the component unmounts: the cleanup of the effect runs
Unmount ==
    /\ DashStep
    /\ wire = << >>
    /\ mounted
    /\ mounted' = FALSE
    /\ isConnected' = FALSE
    /\ UNCHANGED <<pageToken, availableTokens, chartData, currentData,
                   error, sources, timers, fetchPc, arrived, wire>>

DashInit == RelayInit /\ RsiIdle /\ DashIdle /\ TokIdle

DashNext ==
    \/ \E list \in {<< >>, <<"A">>, <<"B", "A">>} : FetchTokensOk(list)
    \/ FetchTokensFail
    \/ \E tok \in {"A", "B"} : Select(tok)
    \/ \E i \in DOMAIN sources : SourceOpen(i)
    \/ \E i \in DOMAIN sources, data \in StreamData : SourceMessage(i, data)
    \/ \E i \in DOMAIN sources : SourceError(i)
    \/ RetryFires
    \/ Unmount

\* the page with any tokens, selections, messages and stream errors
DashSpec == DashInit /\ [][DashNext]_vars

\* there is room for the stream of every timer and for one more
Room == Len(sources) + Len(timers) < MaxSources

\* the stream route comes up for good
RelayAccepts ==
    /\ ~relayUp
    /\ relayUp' = TRUE
    /\ UNCHANGED <<relayVars, rsiVars, dashVars, tokVars>>

\* streams fail while the stream route is down
OutageError(i) == ~relayUp /\ Room /\ SourceError(i)

OutageFetch(list) == Room /\ FetchTokensOk(list)

OutageSelect(tok) == Room /\ Select(tok)

\* the open event of the i-th stream, if there is one
OpensAt(i) == i \in DOMAIN sources /\ SourceOpen(i)

OutageNext ==
    \/ \E list \in {<< >>, <<"A">>, <<"B", "A">>} : OutageFetch(list)
    \/ FetchTokensFail
    \/ \E tok \in {"A", "B"} : OutageSelect(tok)
    \/ \E i \in DOMAIN sources : SourceOpen(i)
    \/ \E i \in DOMAIN sources, data \in StreamData : SourceMessage(i, data)
    \/ \E i \in DOMAIN sources : OutageError(i)
    \/ RetryFires
    \/ Unmount
    \/ RelayAccepts

\* the page during an outage of the stream route that ends: a timer that
\* was set fires, and a connection that can open does
OutageSpec ==
    /\ DashInit
    /\ [][OutageNext]_vars
    /\ WF_vars(RetryFires)
    /\ \A i \in 1..MaxSources : WF_vars(OpensAt(i))

\* a replayed stream: the three data repeat in turn
Wire(a, b, c) ==
    [k \in 1..WireLen |-> IF k % 3 = 1 THEN a ELSE IF k % 3 = 2 THEN b ELSE c]

Wires == {Wire(a, b, c) : a, b, c \in StreamData}

\* the next message of the replayed stream arrives
Replayed(i) ==
    /\ DashStep
    /\ sources[i].state = "open"
    /\ Len(arrived) < Len(wire)
    /\ OnMessage(i, wire[Len(arrived) + 1])
    /\ UNCHANGED <<pageToken, availableTokens, isConnected, error, sources,
                   timers, mounted, fetchPc, wire>>

ChartInit ==
    /\ RelayInit
    /\ RsiIdle
    /\ TokIdle
    /\ pageToken = "all"
    /\ availableTokens = << >>
    /\ chartData = << >>
    /\ currentData = JsonNull
    /\ isConnected = FALSE
    /\ error = Null
    /\ sources = << [token |-> "all", state |-> "connecting"] >>
    /\ timers = << >>
    /\ mounted = TRUE
    /\ fetchPc = "pending"
    /\ arrived = << >>
    /\ wire \in Wires
    /\ relayUp = FALSE

ChartNext ==
    \/ \E i \in DOMAIN sources : SourceOpen(i)
    \/ \E i \in DOMAIN sources : Replayed(i)

\* the page on the stream for 'all', fed replayed streams of WireLen messages
ChartSpec == ChartInit /\ [][ChartNext]_vars

(***************************************************************************)
(* The token list route: GET /api/tokens.                                  *)
(***************************************************************************)
MaxMessages == 100

\* the publisher of trade-data appends a message
TradePublish(v) ==
    /\ TokStep
    /\ Len(tradeLog) < MaxTradeLog
    /\ tradeLog' = Append(tradeLog, v)
    /\ UNCHANGED <<scanFrom, tokPc, tokConsumer, tokens, messageCount,
                   tokCommitted, tokPosition, answers>>

\* a request arrives: kafka.consumer(...), new Set(), messageCount = 0
TokGet ==
    /\ TokStep
    /\ tokPc \in {"idle", "done"}
    /\ Len(answers) < MaxRequests
    /\ tokPc' = "starting"
    /\ tokConsumer' = "created"
    /\ tokens' = << >>
    /\ messageCount' = 0
    /\ UNCHANGED <<scanFrom, tradeLog, tokCommitted, tokPosition, answers>>

\* connect, subscribe and run have resolved: the consumer has joined the
\* group 'token-fetcher' and starts at the group's committed offset, or at
\* the beginning when there is none (fromBeginning: true)
TokRunOk ==
    /\ TokStep
    /\ tokPc = "starting"
    /\ tokPc' = "running"
    /\ tokConsumer' = "joined"
    /\ tokPosition' = IF tokCommitted = NoOffset THEN 0 ELSE tokCommitted
    /\ scanFrom' = tokPosition'
    /\ UNCHANGED <<tradeLog, tokens, messageCount, tokCommitted, answers>>

\* a catch block that answers with the tokens collected so far
TokStartFailAnswersTokens ==
    /\ TokStep
    /\ tokPc = "starting"
    /\ tokPc' = "finally"
    /\ answers' = Append(answers, [status |-> 200, tokens |-> tokens,
                                   at |-> Len(tradeLog)])
    /\ UNCHANGED <<scanFrom, tradeLog, tokConsumer, tokens, messageCount,
                   tokCommitted, tokPosition>>

\* connect, subscribe or run rejects: the catch block answers 500
TokStartFail ==
    /\ TokStep
    /\ tokPc = "starting"
    /\ tokPc' = "finally"
    /\ answers' = Append(answers, [status |-> 500,
                                   error |-> "Failed to fetch tokens",
                                   at |-> Len(tradeLog)])
    /\ UNCHANGED <<scanFrom, tradeLog, tokConsumer, tokens, messageCount,
                   tokCommitted, tokPosition>>

\* a Set that takes an element it already has once more
SetAddAgain(set, x) == Append(set, x)

\* Set.prototype.add, the Set kept in insertion order
SetAdd(set, x) ==
    IF \E k \in DOMAIN set : set[k] = x THEN set ELSE Append(set, x)

\* a scan without an end
ScanDoneNever(count) == FALSE

\* if (messageCount >= maxMessages)
ScanDone(count) == count >= MaxMessages

\* if (trade.token_address)
Truthy(x) == x # Undefined /\ x # ""

\* eachMessage of the token scan, called while the consumer is in the group
TokEachMessage ==
    /\ TokStep
    /\ tokConsumer = "joined"
    /\ tokPosition < Len(tradeLog)
    /\ LET off == tokPosition + 1
           value == tradeLog[off]
           thrown == JSONParse(value) \in {SyntaxError, JsonNull}
           counted == value # NoValue /\ ~thrown
       IN  /\ tokens' = IF counted /\ Truthy(Field(JSONParse(value), "token_address"))
                        THEN SetAdd(tokens, Field(JSONParse(value), "token_address"))
                        ELSE tokens
           /\ messageCount' = IF counted THEN messageCount + 1 ELSE messageCount
           /\ tokConsumer' = IF counted /\ ScanDone(messageCount + 1)
                             THEN "disconnected" ELSE tokConsumer
           /\ tokPosition' = off
           /\ tokCommitted' = off
    /\ UNCHANGED <<scanFrom, tradeLog, tokPc, answers>>

\* Array.from(tokens) and the response, as soon as run() has resolved
TokRespond ==
    /\ TokStep
    /\ tokPc = "running"
    /\ tokPc' = "finally"
    /\ answers' = Append(answers, [status |-> 200, tokens |-> tokens,
                                   at |-> Len(tradeLog)])
    /\ UNCHANGED <<scanFrom, tradeLog, tokConsumer, tokens, messageCount,
                   tokCommitted, tokPosition>>

\* a handler that ends without the disconnect of its finally block
TokFinallyLeavesConsumer(ok) ==
    /\ TokStep
    /\ tokPc = "finally"
    /\ tokPc' = "done"
    /\ UNCHANGED <<scanFrom, tradeLog, tokConsumer, tokens, messageCount,
                   tokCommitted, tokPosition, answers>>

\* finally: consumer.disconnect() has settled; when it rejects, the error
\* goes to console.error and the consumer is left broken
TokFinally(ok) ==
    /\ TokStep
    /\ tokPc = "finally"
    /\ tokPc' = "done"
    /\ tokConsumer' = IF ok \/ tokConsumer = "disconnected"
                      THEN "disconnected" ELSE "broken"
    /\ UNCHANGED <<scanFrom, tradeLog, tokens, messageCount, tokCommitted,
                   tokPosition, answers>>

TokInit == RelayInit /\ RsiIdle /\ DashIdle /\ TokIdle

TokNext ==
    \/ \E v \in TradeValues : TradePublish(v)
    \/ TokGet
    \/ TokRunOk
    \/ TokStartFail
    \/ TokEachMessage
    \/ TokRespond
    \/ \E ok \in BOOLEAN : TokFinally(ok)

\* the token list route with any trade log and requests one after another
TokSpec == TokInit /\ [][TokNext]_vars

\* a trade log in which three values repeat in turn, and a last message
TradeScript(a, b, c, d) ==
    [k \in 1..TradeScriptLen |->
        IF k = TradeScriptLen THEN d
        ELSE IF k % 3 = 1 THEN a ELSE IF k % 3 = 2 THEN b ELSE c]

TradeScripts == {TradeScript(a, b, c, d) : a, b, c, d \in TradeValues}

ScanInit ==
    /\ RelayInit
    /\ RsiIdle
    /\ DashIdle
    /\ TokAtRest
    /\ tradeLog \in TradeScripts

\* the one request of a scan over a long trade log
ScanGet == TokGet /\ answers = << >>

ScanNext ==
    \/ ScanGet
    \/ TokRunOk
    \/ TokStartFail
    \/ TokEachMessage
    \/ TokRespond
    \/ \E ok \in BOOLEAN : TokFinally(ok)

\* the token list route over long trade logs that are there from the start
ScanSpec == ScanInit /\ [][ScanNext]_vars

Init == RelayInit /\ RsiIdle /\ DashIdle /\ TokIdle

Next == RelayNext

Spec == Init /\ [][Next]_vars

LoggedSpec == Init /\ [][LoggedNext]_vars

(***************************************************************************)
(* Properties of the relay.                                                *)
(***************************************************************************)
Range(seq) == {seq[i] : i \in DOMAIN seq}

\* the texts JSON.stringify can give
StringifiedTexts ==
    {JSONStringify(JSONParse(v)) :
        v \in {w \in MessageValues \ {NoValue} : JSONParse(w) # SyntaxError}}

\* the data field an EventSource client gets from a frame "data: <text>\n\n"
FrameData(frame) ==
    IF \E text \in StringifiedTexts : frame = "data: " \o text \o "\n\n"
    THEN CHOOSE text \in StringifiedTexts : frame = "data: " \o text \o "\n\n"
    ELSE Undefined

\* the session is up: its consumer runs, its client is there, its stream is open
Live(s) == pc[s] = "running" /\ ~aborted[s] /\ strm[s] = "readable"

\* offsets of the messages that were enqueued on the stream of a live session
Delivered(s) ==
    {o \in Range(handled[s]) : Accepts(selectedToken[s], log[o])}

ResultEventFields ==
    {"token_address", "rsi_value", "current_price", "timestamp", "period", "signal"}

IsResultEvent(v) ==
    /\ v.t = "object"
    /\ DOMAIN v.fields = ResultEventFields
    /\ v.fields.signal \in {"oversold", "neutral", "overbought"}

\* C1: a session whose filter is a token X (not "all") only ever has frames
\* of token_address X on its stream, whatever is on the log.
C1_OnlySelectedToken ==
    \A s \in Sessions :
        selectedToken[s] # "all" =>
            \A k \in DOMAIN queue[s] :
                LET data == FrameData(queue[s][k].frame)
                IN  /\ data # Undefined
                    /\ Field(JSONParse(data), "token_address") = selectedToken[s]

\* a session filtering on A has a frame, and has been handed an event of B
C1_Witness ==
    \E s \in Sessions :
        /\ selectedToken[s] = "A"
        /\ queue[s] # << >>
        /\ \E k \in DOMAIN handled[s] : log[handled[s][k]] = RawB

\* C2: a live session with filter "all" gets every event published since it
\* is live, once each and in publish order: what it got of these events is
\* a gap-free run in increasing offset order.
C2_AllInPublishOrder ==
    \A s \in Sessions :
        Live(s) /\ selectedToken[s] = "all" =>
            /\ \A j, k \in DOMAIN handled[s] : j < k => handled[s][j] < handled[s][k]
            /\ \A o1, o2 \in (liveAt[s] + 1)..Len(log) :
                  (o1 < o2 /\ Accepts("all", log[o1]) /\ o2 \in Delivered(s))
                      => o1 \in Delivered(s)

\* C3: with two sessions live, every event the relay has read from the log
\* since both are live is on the stream of each of them whose filter matches.
C3_EveryMatchingSession ==
    \A s, u \in Sessions :
        (s # u /\ Live(s) /\ Live(u)) =>
            \A o \in 1..committed :
                (o > liveAt[s] /\ o > liveAt[u] /\ Accepts(selectedToken[s], log[o]))
                    => o \in Delivered(s)

\* C4: no session is sent an event that was published before its request came.
C4_OnlyNewEvents ==
    \A s \in Sessions :
        \A k \in DOMAIN queue[s] : queue[s][k].off > connectedAt[s]

TornDown(s) == pc[s] \in {"closed", "rejected"} /\ s \notin members /\ strm[s] # "readable"

\* C6: a session whose client has gone is torn down: once nothing of its
\* start() or of its teardown is still pending, its consumer is disconnected
\* and its stream is closed.
C6_AbortTearsDown ==
    \A s \in Sessions :
        (aborted[s] /\ pc[s] \notin {"starting", "disconnecting"}) => TornDown(s)

\* C7: every frame on a stream carries a complete Result Event.
C7_CompleteEvents ==
    \A s \in Sessions :
        \A k \in DOMAIN queue[s] :
            LET data == FrameData(queue[s][k].frame)
            IN  data # Undefined /\ IsResultEvent(JSONParse(data))

(***************************************************************************)
(* Properties of the RSI calculator.                                       *)
(***************************************************************************)
EventsOf(token) ==
    SelectSeq(outbound, LAMBDA e : e.token_address = token)

PricesOf(token) ==
    LET trades == SelectSeq(inbound, LAMBDA tr : tr.token_address = token)
    IN  [k \in DOMAIN trades |-> trades[k].price]

\* C8: every published RSI value lies in [0, 100], and an instrument that is
\* not warm (or has no state yet) has no Result Event published.
C8_RsiInRangeOnceWarm ==
    /\ \A k \in DOMAIN outbound :
          /\ RLeq(FromInt(0), outbound[k].rsi_value)
          /\ RLeq(outbound[k].rsi_value, FromInt(100))
    /\ \A token \in Instruments :
          ~StateOf(token).warm => EventsOf(token) = << >>

\* an instrument in the steady phase with an RSI strictly inside (0, 100),
\* next to an instrument that has a price and is not warm yet
C8_Witness ==
    /\ \E k \in DOMAIN outbound :
          /\ StateOf(outbound[k].token_address).seen_count > period
          /\ RLess(FromInt(0), outbound[k].rsi_value)
          /\ RLess(outbound[k].rsi_value, FromInt(100))
    /\ \E token \in DOMAIN table :
          ~table[token].warm /\ table[token].window # << >>

\* the script is 1, 2, 3, ..., 15, ...
Ascending == \A k \in 1..15 : script[k].price = k

\* C9: with W = 14 and the prices 1, 2, ..., 15, the instrument is not warm
\* after any of the first 14 prices and nothing is published; at the 15th
\* price it is warm and the Result Event has RSI 100, signal overbought.
C9_WarmAtFifteenthPrice ==
    (period = 14 /\ Ascending) =>
        /\ Len(inbound) <= 14 => (~StateOf("A").warm /\ outbound = << >>)
        /\ Len(inbound) >= 15 =>
              /\ StateOf("A").warm
              /\ outbound[1].timestamp = 15
              /\ outbound[1].current_price = 15
              /\ outbound[1].rsi_value = FromInt(100)
              /\ outbound[1].signal = "overbought"

\* the 15th price of 1, 2, ..., 15 has been processed
C9_Witness ==
    period = 14 /\ Ascending /\ Len(inbound) = 15 /\ Len(outbound) = 1

\* every price the instrument has been fed is the same
Flat(token) ==
    \A j, k \in DOMAIN PricesOf(token) : PricesOf(token)[j] = PricesOf(token)[k]

\* C10: an instrument fed equal prices only (every delta zero) has, once
\* warm, the RSI 50 exactly in every Result Event.
C10_FlatIsFifty ==
    \A token \in DOMAIN table :
        (Flat(token) /\ table[token].warm) =>
            /\ table[token].avg_gain = FromInt(0)
            /\ table[token].avg_loss = FromInt(0)
            /\ EventsOf(token) # << >>
            /\ \A k \in DOMAIN EventsOf(token) :
                  EventsOf(token)[k].rsi_value = FromInt(50)

\* a flat instrument that is warm and has gone one step into the steady phase
C10_Witness ==
    \E token \in DOMAIN table :
        Flat(token) /\ table[token].warm /\ table[token].seen_count > period

\* every price the instrument has been fed is above the one before
Increasing(token) ==
    \A k \in DOMAIN PricesOf(token) :
        k > 1 => PricesOf(token)[k - 1] < PricesOf(token)[k]

\* C11: an instrument fed strictly increasing prices only (every delta
\* positive) has, once warm, no average loss, a positive average gain and
\* the RSI 100 in every Result Event.
C11_IncreasingIsHundred ==
    \A token \in DOMAIN table :
        (Increasing(token) /\ table[token].warm) =>
            /\ table[token].avg_loss = FromInt(0)
            /\ RLess(FromInt(0), table[token].avg_gain)
            /\ EventsOf(token) # << >>
            /\ \A k \in DOMAIN EventsOf(token) :
                  EventsOf(token)[k].rsi_value = FromInt(100)

\* a rising instrument that is warm and one step into the steady phase
C11_Witness ==
    \E token \in DOMAIN table :
        /\ Increasing(token)
        /\ table[token].warm
        /\ table[token].seen_count > period
        /\ Len(EventsOf(token)) > 1

\* every price the instrument has been fed is below the one before
Decreasing(token) ==
    \A k \in DOMAIN PricesOf(token) :
        k > 1 => PricesOf(token)[k - 1] > PricesOf(token)[k]

\* C12: an instrument fed strictly decreasing prices only (every delta
\* negative) has, once warm, no average gain, a positive average loss and
\* the RSI 0 in every Result Event.
C12_DecreasingIsZero ==
    \A token \in DOMAIN table :
        (Decreasing(token) /\ table[token].warm) =>
            /\ table[token].avg_gain = FromInt(0)
            /\ RLess(FromInt(0), table[token].avg_loss)
            /\ EventsOf(token) # << >>
            /\ \A k \in DOMAIN EventsOf(token) :
                  EventsOf(token)[k].rsi_value = FromInt(0)

\* a falling instrument that is warm and one step into the steady phase
C12_Witness ==
    \E token \in DOMAIN table :
        /\ Decreasing(token)
        /\ table[token].warm
        /\ table[token].seen_count > period
        /\ Len(EventsOf(token)) > 1

\* the state of an instrument that is fed these prices alone, from a new state
RECURSIVE Alone(_)
Alone(prices) ==
    IF prices = << >> THEN NewState
    ELSE AfterTrade(Alone(SubSeq(prices, 1, Len(prices) - 1)), prices[Len(prices)])

\* the Result Events (time left out) of an instrument fed these prices alone
RECURSIVE EventsAlone(_, _)
EventsAlone(token, prices) ==
    IF prices = << >> THEN << >>
    ELSE LET before == SubSeq(prices, 1, Len(prices) - 1)
             st == Alone(prices)
         IN  IF st.warm
             THEN Append(EventsAlone(token, before),
                         ResultEvent(token, st, prices[Len(prices)], 0))
             ELSE EventsAlone(token, before)

\* C13: whatever the interleaving of the trades of the instruments through
\* the one table, each instrument's state (window, averages, count) is the
\* state it has when its own prices are processed alone, and so are its
\* Result Events; an instrument without a trade has no state.
C13_NoCrossContamination ==
    \A token \in Instruments :
        /\ token \in DOMAIN table <=> PricesOf(token) # << >>
        /\ token \in DOMAIN table => table[token] = Alone(PricesOf(token))
        /\ LET alone == EventsAlone(token, PricesOf(token))
           IN  /\ Len(EventsOf(token)) = Len(alone)
               /\ \A k \in DOMAIN alone :
                     [EventsOf(token)[k] EXCEPT !.timestamp = 0] = alone[k]

\* trades of A and B alternate (A, B, A, B), and one of the two is warm
C13_Witness ==
    /\ \E i \in DOMAIN inbound :
          /\ i + 3 \in DOMAIN inbound
          /\ inbound[i].token_address # inbound[i + 1].token_address
          /\ inbound[i + 1].token_address # inbound[i + 2].token_address
          /\ inbound[i + 2].token_address # inbound[i + 3].token_address
          /\ inbound[i].price # inbound[i + 1].price
    /\ \E token \in DOMAIN table : table[token].warm
    /\ \E token \in DOMAIN table : ~table[token].warm

\* C14: the signal of every Result Event follows from its RSI value alone:
\* below 30 oversold, above 70 overbought, and from 30 to 70, both ends
\* included, neutral.
C14_SignalThresholds ==
    \A k \in DOMAIN outbound :
        LET rsi == outbound[k].rsi_value
        IN  /\ RLess(rsi, FromInt(30)) => outbound[k].signal = "oversold"
            /\ RLess(FromInt(70), rsi) => outbound[k].signal = "overbought"
            /\ (RLeq(FromInt(30), rsi) /\ RLeq(rsi, FromInt(70)))
                  => outbound[k].signal = "neutral"

\* an event with the RSI exactly 70 (neutral), then one above 70 (overbought)
C14_Witness ==
    /\ Len(outbound) = 2
    /\ outbound[1].rsi_value = FromInt(70)
    /\ outbound[1].signal = "neutral"
    /\ RLess(FromInt(70), outbound[2].rsi_value)
    /\ outbound[2].signal = "overbought"

\* the last n elements of a sequence (all of them if it has fewer)
LastN(seq, n) ==
    IF Len(seq) <= n THEN seq ELSE SubSeq(seq, Len(seq) - n + 1, Len(seq))

\* C15: whatever has been pushed, the window of an instrument holds at most
\* W+1 prices, and they are the last min(k, W+1) of its k prices, in the
\* order they were pushed.
C15_WindowKeepsLastPrices ==
    \A token \in DOMAIN table :
        /\ Len(table[token].window) <= period + 1
        /\ table[token].window = LastN(PricesOf(token), period + 1)

\* an instrument has had more than W+1 prices, and the window no longer
\* starts with its first price
C15_Witness ==
    \E token \in DOMAIN table :
        /\ Len(PricesOf(token)) > period + 1
        /\ Len(table[token].window) = period + 1
        /\ table[token].window[1] # PricesOf(token)[1]
        /\ table[token].window[period + 1] # table[token].window[period]

(***************************************************************************)
(* Properties of the dashboard page.                                       *)
(***************************************************************************)
\* the arrived messages the handler got through without a throw (the catch
\* block of onmessage was not entered)
Parsed ==
    SelectSeq(arrived, LAMBDA m :
                  m.mounted /\ JSONParse(m.data) \notin {SyntaxError, JsonNull})

\* the arrived messages the points of the chart were made from
ChartOrigins == LastN(Parsed, 50)

C17_ChartOfSelectedToken ==
    (mounted /\ pageToken # "all") =>
        /\ \A k \in DOMAIN ChartOrigins :
              Field(JSONParse(ChartOrigins[k].data), "token_address") = pageToken
        /\ currentData # JsonNull =>
              Field(currentData, "token_address") = pageToken

(***************************************************************************)
(* Properties of the token list route.                                     *)
(***************************************************************************)
\* the token_address values of the messages of trade-data
TokensOfLog ==
    {Field(JSONParse(tradeLog[o]), "token_address") :
        o \in {n \in DOMAIN tradeLog :
                  /\ tradeLog[n] # NoValue
                  /\ JSONParse(tradeLog[n]) \notin {SyntaxError, JsonNull}}}
        \ {Undefined}

\* C18: a 200 answer of the token list route carries a list in which no
\* token occurs twice and every token is the token_address of a message of
\* trade-data.
C18_TokensFromLog ==
    \A k \in DOMAIN answers :
        answers[k].status = 200 =>
            LET list == answers[k].tokens
            IN  /\ \A i, j \in DOMAIN list : i # j => list[i] # list[j]
                /\ \A i \in DOMAIN list : list[i] \in TokensOfLog

\* a 200 answer with two tokens, from a log on which one of them is twice
C18_Witness ==
    /\ \E k \in DOMAIN answers :
          answers[k].status = 200 /\ Len(answers[k].tokens) = 2
    /\ \E m, n \in DOMAIN tradeLog : m # n /\ tradeLog[m] = tradeLog[n]

Malformed(value) == value = NoValue \/ JSONParse(value) = SyntaxError

\* C20: a message without a value or with a value that is not JSON puts
\* nothing on the stream of the session that was handed it, and does not
\* end the session: every matching message the relay has read after it is
\* on the stream of that session, as long as the session is live.
C20_MalformedSkipped ==
    \A s \in Sessions :
        \A m \in Range(handled[s]) :
            Malformed(log[m]) =>
                /\ \A k \in DOMAIN queue[s] : queue[s][k].off # m
                /\ Live(s) =>
                      \A o \in (m + 1)..committed :
                          Accepts(selectedToken[s], log[o]) => o \in Delivered(s)

\* the offset eachMessage was called with in this step, for a session whose
\* handler ran in this step
HandledNow(s) == handled'[s][Len(handled'[s])]

\* the session has left the running state for its teardown
TearingDown(s) == pc[s] \in {"disconnecting", "closed", "rejected"}

\* C21: when the enqueue of a matching event on a session's stream fails
\* (the stream is no longer open), the session is torn down: the handler
\* leaves the session on its way to a disconnected consumer.
C21_FailedWriteTearsDown ==
    [][\A s \in Sessions :
          (/\ handled'[s] # handled[s]
           /\ Accepts(selectedToken[s], log[HandledNow(s)])
           /\ strm[s] # "readable")
              => TearingDown(s)']_vars

\* C22: a session that does not drain its stream blocks nothing: the next
\* message can be handled whatever is buffered for it, and every other
\* live session has every matching event the relay has read since the
\* stalled session's oldest buffered frame.
C22_StalledNeverBlocks ==
    \A s, u \in Sessions :
        (s # u /\ Live(s) /\ queue[s] # << >> /\ Live(u)) =>
            \A o \in 1..committed :
                (/\ o > queue[s][1].off
                 /\ o > liveAt[u]
                 /\ Accepts(selectedToken[u], log[o]))
                    => o \in Delivered(u)

\* the client of the session has gone and nothing of its teardown is pending
Gone(s) == aborted[s] /\ pc[s] \notin {"starting", "disconnecting"}

\* C23: the teardown of a session is local: a step of the abort or of the
\* disconnect of one session leaves the stream and the filter of every
\* other session as they are, and once a session is gone, every message
\* the relay reads that matches the filter of another live session is
\* handled for that session.
C23_TeardownIsLocal ==
    [][\A s, u \in Sessions :
          s # u =>
              /\ (aborted'[s] # aborted[s] \/ (TearingDown(s)' /\ pc'[s] # pc[s]))
                    => (strm'[u] = strm[u] /\ selectedToken'[u] = selectedToken[u])
              /\ (/\ Gone(s)
                  /\ Live(u)
                  /\ handled' # handled
                  /\ Accepts(selectedToken[u], log[position + 1]))
                    => handled'[u] # handled[u]]_vars

C25_FilterFixedAtConnection ==
    /\ [](\A s \in Sessions :
            pc[s] # "idle" =>
                selectedToken[s] =
                    IF query[s] = "<missing>" \/ query[s] = "" THEN "all" ELSE query[s])
    /\ [][\A s \in Sessions :
            pc[s] # "idle" => selectedToken'[s] = selectedToken[s]]_vars

\* a session asked for with an empty parameter has a frame of B on its
\* stream, next to a session asked for with the parameter A
C25_Witness ==
    \E s, u \in Sessions :
        /\ query[s] = "" /\ selectedToken[s] = "all"
        /\ \E k \in DOMAIN queue[s] : log[queue[s][k].off] = RawB
        /\ query[u] = "A" /\ pc[u] = "running"

\* C26: a session whose start failed has its stream in the error state and
\* never a frame on it; when its client then goes away, its consumer is
\* disconnected and the teardown ends without an error raised.
C26_FailedStartStaysQuiet ==
    \A s \in Sessions :
        strm[s] = "errored" =>
            /\ queue[s] = << >>
            /\ handled[s] = << >>
            /\ s \notin members
            /\ pc[s] # "rejected"

(***************************************************************************)
(* Further properties of the token list route.                             *)
(***************************************************************************)
\* the message at offset o of trade-data has a value that parses to a trade
Valid(o) ==
    /\ tradeLog[o] # NoValue
    /\ JSONParse(tradeLog[o]) \notin {SyntaxError, JsonNull}

ValidIn(lo, hi) == {o \in lo..hi : Valid(o)}

\* the token addresses of the messages at the offsets offs
TokensAt(offs) ==
    {Field(JSONParse(tradeLog[o]), "token_address") : o \in offs} \ {Undefined}

\* the first MaxMessages valid messages of the first n messages
FirstValid(n) ==
    {o \in ValidIn(1, n) : Cardinality(ValidIn(1, o)) <= MaxMessages}

\* C27: a 200 answer of the token list route carries exactly the token
\* addresses of the first 100 valid messages that trade-data held when
\* the answer was built (of all its valid messages when they are fewer).
C27_ReturnsTokensOfLog ==
    \A k \in DOMAIN answers :
        answers[k].status = 200 =>
            Range(answers[k].tokens) = TokensAt(FirstValid(answers[k].at))

\* the consumer of the current request has joined the group
Scanned ==
    \/ tokPc = "running"
    \/ /\ tokPc \in {"finally", "done"}
       /\ answers[Len(answers)].status = 200

C29_SameLogSameTokens ==
    \A j, k \in DOMAIN answers :
        /\ answers[j].status = 200
        /\ answers[k].status = 200
        /\ answers[j].at = answers[k].at
        => Range(answers[j].tokens) = Range(answers[k].tokens)

\* C30: when the handler of the token list route has completed, the
\* disconnect of its consumer has been called and has settled, whether the
\* handler answered 200 or 500, and the step in which that disconnect
\* settles, with or without a failure, leaves the answer as it was.
C30_DisconnectsOnEveryPath ==
    /\ [](tokPc = "done" => /\ tokConsumer \in {"disconnected", "broken"}
                            /\ answers # << >>)
    /\ [][tokPc = "finally" /\ tokPc' = "done" => answers' = answers]_vars

\* a 500 answer and then a 200 answer, the last disconnect having failed
C30_Witness ==
    /\ tokPc = "done"
    /\ tokConsumer = "broken"
    /\ Len(answers) = 2
    /\ answers[1].status = 500
    /\ answers[2].status = 200

\* C31: a request whose connect, subscribe or run has rejected is answered,
\* in the step that leaves the try block, with status 500 and the error
\* 'Failed to fetch tokens'; an answer with status 500 carries that error
\* and no token list, and a handler that has completed has answered.
C31_StartFailureAnswers500 ==
    /\ [](\A k \in DOMAIN answers :
            answers[k].status = 500 =>
                /\ answers[k].error = "Failed to fetch tokens"
                /\ "tokens" \notin DOMAIN answers[k])
    /\ [](tokPc \in {"finally", "done"} => answers # << >>)
    /\ [][tokPc = "starting" /\ tokPc' = "finally"
            => /\ Len(answers') = Len(answers) + 1
               /\ SubSeq(answers', 1, Len(answers)) = answers
               /\ answers'[Len(answers')].status = 500]_vars

\* a 200 answer with a token and then a 500 answer
C31_Witness ==
    /\ Len(answers) = 2
    /\ answers[1].status = 200
    /\ answers[1].tokens # << >>
    /\ answers[2].status = 500
    /\ tokPc = "done"

(***************************************************************************)
(* Further properties of the dashboard page.                               *)
(***************************************************************************)
\* the EventSource objects of the page whose readyState is OPEN
OpenSources == {i \in DOMAIN sources : sources[i].state = "open"}

\* C32: the page has at most one open EventSource at any time, of the
\* token that is selected, and none when the component has unmounted.
C32_AtMostOneOpenSource ==
    /\ Cardinality(OpenSources) <= 1
    /\ \A i \in OpenSources : sources[i].token = pageToken
    /\ ~mounted => OpenSources = {}

\* a stream has just been closed
Closes(i) ==
    /\ i \in DOMAIN sources
    /\ sources[i].state # "closed"
    /\ sources'[i].state = "closed"

\* C33: the step in which a stream reports an error closes that stream,
\* sets isConnected to false and error to the retry message, and sets
\* exactly one timer; and with the stream route accepting connections
\* again the page, while it is mounted, gets connected with no error.
C33_ErrorClosesAndRetries ==
    /\ [][\A i \in 1..MaxSources :
            Closes(i) => /\ Len(timers') = Len(timers) + 1
                         /\ timers'[Len(timers')] = sources[i].token
                         /\ mounted =>
                               /\ ~isConnected'
                               /\ error' = "Connection lost. Retrying..."]_vars
    /\ (relayUp /\ mounted /\ error = "Connection lost. Retrying...")
          ~> (~mounted \/ (isConnected /\ error = Null))

\* the page connected with no error after an error and its retry, the
\* stream route accepting connections
C33_Witness ==
    /\ relayUp
    /\ mounted
    /\ isConnected
    /\ error = Null
    /\ timers = << >>
    /\ Len(sources) = 2
    /\ sources[1].state = "closed"
    /\ sources[2].state = "open"

\* C34: a step in which a retry timer fires happens on the mounted page
\* only, and the stream it makes is for the token selected at that time.
C34_RetryUsesSelectedToken ==
    [][Len(timers') < Len(timers)
          => /\ mounted
             /\ sources'[Len(sources')].token = pageToken]_vars

\* C35: isConnected is true only while an EventSource made for the
\* selected token is open, and no open or error event of a stream made for
\* another token changes isConnected.
C35_IsConnectedIsAccurate ==
    /\ [](isConnected =>
            \E i \in OpenSources : sources[i].token = pageToken)
    /\ [][\A i \in 1..MaxSources :
            /\ i \in DOMAIN sources
            /\ sources[i].token # pageToken
            /\ sources'[i].state # sources[i].state
            => isConnected' = isConnected]_vars

\* the message that has just arrived
Arrival == arrived'[Len(arrived')]

\* C36: the arrival of a message whose data is not valid JSON leaves
\* currentData, chartData, the streams, isConnected and error as they were,
\* and the arrival of a message that the handler gets through puts its
\* point at the end of chartData and its event into currentData, whatever
\* arrived before.
C36_InvalidJsonChangesNothing ==
    [][Len(arrived') = Len(arrived) + 1 =>
          /\ ParseThrows(Arrival.data) =>
                UNCHANGED <<currentData, chartData, sources, isConnected,
                            error, timers>>
          /\ (Arrival.mounted /\ ~HandlerThrows(Arrival.data)) =>
                /\ chartData' # << >>
                /\ chartData'[Len(chartData')]
                      = NewDataPoint(JSONParse(Arrival.data))
                /\ currentData' = JSONParse(Arrival.data)]_vars

\* a chart with a point made before and a point made after a message that
\* is not valid JSON, the stream still open
C36_Witness ==
    /\ Len(arrived) = 3
    /\ ~HandlerThrows(arrived[1].data)
    /\ ParseThrows(arrived[2].data)
    /\ ~HandlerThrows(arrived[3].data)
    /\ Len(chartData) = 2
    /\ currentData = JSONParse(arrived[3].data)
    /\ sources[arrived[3].src].state = "open"

====
